---------------------------- MODULE Spec2Model ----------------------------
(***************************************************************************)
(* Model of the Timer class of apollo79/timers (src/Timer.ts, the file     *)
(* kept as src/unnamed/part_009, lines 1-315) together with the host's     *)
(* native timer facility, an AbortSignal and the global `timers` map.      *)
(*                                                                         *)
(* Time is counted in milliseconds.  TIMEOUT_MAX is 2^31-1 in the source;  *)
(* the model scales it down, because the code only compares the time left  *)
(* with it and subtracts it, and TLC's integers are 32 bits wide.          *)
(*                                                                         *)
(* The firing handler of #run calls the user's callback in the middle, and *)
(* the callback may call back into the Timer (abort, run).  The handler is *)
(* therefore split at the call: Tick enters the callback, Abort and Run    *)
(* may act while it executes, CbReturn and CbThrow run the rest of the     *)
(* handler.  Every other handler is one action.                            *)
(***************************************************************************)
EXTENDS Integers, FiniteSets, Sequences, TLC

\* ------------------------------------------------------------------ bounds
TIMEOUT_MAX == 2          \* scaled stand-in for 2^31-1 (mod.ts:22)
MaxTimes == 2             \* largest finite `times` option that is tried

MaxDelay == 2 * TIMEOUT_MAX + 1
MaxRuns == MaxTimes + 1   \* cap of the _runs counter in the guards
Infinity == MaxRuns + 1   \* `times = Infinity`: a count _runs never reaches

Delays == 0 .. MaxDelay
Times == (0 .. MaxTimes) \cup {Infinity}
Reasons == {"undefined", "R"}
FirstId == 1

VARIABLES
  objs,      \* the Timer objects: id -> fields
  timers,    \* the global `timers` Map, as the set of its keys
  nextId,    \* the module-level id counter
  native,    \* the host's pending native timers
  signal,    \* the AbortSignal handed to the timers
  cur,       \* the firing handler whose callback is executing, if any
  hist,      \* history of each Timer, for stating the properties
  lastNew,   \* the last constructor call: its arguments and what it threw
  api,       \* the promise and the closure variable of the last delay() call
  pt,        \* the last pTimeout() call: its closure variables and promises
  every,     \* the Every instance: its _interval and #limit
  keep       \* _persistent of the Timers on which ref() and unref() are
             \* followed, and the handles of the unref'd native timers

vars == <<objs, timers, nextId, native, signal, cur, hist, lastNew, api, pt, every, keep>>

Ids == DOMAIN objs

Min(a, b) == IF a <= b THEN a ELSE b

\* ------------------------------------------------------- the native timers
\* The pending native timers owned by Timer t.
Pending(nat, t) == {n \in nat : n.owner = t}

\* A handle the host hands out: one that no pending native timer carries and
\* that no Timer still holds in _timer (the host never reuses a live id).
FreshHandle(H) ==
  LET used == {n.id : n \in H.native} \cup {H.objs[t].timer : t \in DOMAIN H.objs}
  IN  CHOOSE h \in 1 .. (Cardinality(used) + 1) :
        /\ h \notin used
        /\ \A g \in 1 .. (h - 1) : g \in used

\* globalThis.setTimeout(closure, ms): the closure is the firing one or the
\* long-timeout (filler) one of #run.
setTimeout(nat, h, t, firing, ms) ==
  nat \cup {[id |-> h, owner |-> t, firing |-> firing, delay |-> ms, left |-> ms]}

clearTimeout_keeps(nat, h) == nat

\* globalThis.clearTimeout(handle); undefined (0) and unknown handles are ignored.
clearTimeout(nat, h) == {n \in nat : n.id # h}

\* ------------------------------------------------------------ Timer methods
FitsOneTick_strict(timeLeft) == timeLeft < TIMEOUT_MAX

\* #run: `this._timeLeft <= TIMEOUT_MAX`
FitsOneTick(timeLeft) == timeLeft <= TIMEOUT_MAX

AfterFiller_short(timeLeft) == timeLeft - TIMEOUT_MAX - 1

AfterFiller_stuck(timeLeft) == timeLeft

\* long-timeout closure: `this._timeLeft -= TIMEOUT_MAX`
AfterFiller(timeLeft) == timeLeft - TIMEOUT_MAX

RunsFinished_late(o) == o.runs = o.times + 1

\* firing closure: `this._runs === this.options.times`
RunsFinished(o) == o.runs = o.times

\* #run(): arm the next native timer of the cycle.  The trailing
\* `if (!this._persistent) this.unref()` is left out: unref() acts only
\* while _persistent is true, so that call changes no state.
PrivateRun(H, t) ==
  LET o == H.objs[t]
      h == FreshHandle(H)
  IN  IF FitsOneTick(o.timeLeft)
        THEN [H EXCEPT !.native = setTimeout(@, h, t, TRUE, o.timeLeft),
                       !.objs[t].timer = h]
        ELSE [H EXCEPT !.native = setTimeout(@, h, t, FALSE, TIMEOUT_MAX),
                       !.objs[t].timer = h]

run_ignoresAbort(H, t) ==
  IF H.objs[t].running
    THEN H
    ELSE [PrivateRun(H, t) EXCEPT !.objs[t].running = TRUE]

run_ignoresRunning(H, t) ==
  IF H.objs[t].isAborted
    THEN H
    ELSE [PrivateRun(H, t) EXCEPT !.objs[t].running = TRUE]

\* run(): the _ran branch only warns; the call is ignored when the timer is
\* running or aborted.
run(H, t) ==
  IF H.objs[t].running
    THEN H
    ELSE IF H.objs[t].isAborted
      THEN H
      ELSE [PrivateRun(H, t) EXCEPT !.objs[t].running = TRUE]

clear_keepsEntry(H, t) ==
  [H EXCEPT !.native = clearTimeout(@, H.objs[t].timer),
            !.objs[t].running = FALSE,
            !.objs[t].timer = 0]

\* clear()
clear(H, t) ==
  [H EXCEPT !.native = clearTimeout(@, H.objs[t].timer),
            !.objs[t].running = FALSE,
            !.timers = @ \ {t},
            !.objs[t].timer = 0,
            !.signal.listeners = IF H.objs[t].signal THEN @ \ {t} ELSE @]

\* _resolveAborted(exception): sets _isAborted and resolves the promise,
\* which keeps the value of its first resolution.
resolveAborted(H, t, cause) ==
  [H EXCEPT !.objs[t].isAborted = TRUE,
            !.objs[t].aborted = IF @ = "pending" THEN cause ELSE @]

\* abort(reason)
abort(H, t, reason) == resolveAborted(clear(H, t), t, reason)

AfterCallback_aborts(H, t) ==
  LET H0 == [H EXCEPT !.objs[t].timeLeft = H.objs[t].delay]
  IN  IF RunsFinished(H0.objs[t])
        THEN [abort(H0, t, "undefined") EXCEPT !.objs[t].ran = TRUE]
        ELSE PrivateRun(H0, t)

AfterCallback_noReset(H, t) ==
  IF RunsFinished(H.objs[t])
    THEN [clear(H, t) EXCEPT !.objs[t].ran = TRUE]
    ELSE PrivateRun(H, t)

\* The rest of the firing closure once the callback is over: reset
\* _timeLeft, then finish (clear, _ran) or arm the next cycle.
AfterCallback(H, t) ==
  LET H0 == [H EXCEPT !.objs[t].timeLeft = H.objs[t].delay]
  IN  IF RunsFinished(H0.objs[t])
        THEN [clear(H0, t) EXCEPT !.objs[t].ran = TRUE]
        ELSE PrivateRun(H0, t)

\* The effects of the constructor on the object with the new id, the
\* timers map and the signal.
construct(H, id, d, n, s, sil) ==
  LET o  == [delay |-> d, timeLeft |-> d, ran |-> FALSE, runs |-> 0,
             running |-> FALSE, isAborted |-> FALSE, timer |-> 0,
             times |-> n, silent |-> sil, signal |-> s, aborted |-> "pending"]
      H0 == [H EXCEPT
               !.objs = [x \in DOMAIN H.objs \cup {id} |-> IF x = id THEN o ELSE H.objs[x]],
               !.timers = @ \cup {id}]
  IN  IF s /\ H.signal.aborted
        THEN resolveAborted(H0, id, H.signal.reason)
        ELSE IF s
          THEN [H0 EXCEPT !.signal.listeners = @ \cup {id}]
          ELSE H0

\* The signal's "abort" event: every subscribed listener is `this.abort`
\* of a Timer, registered once, and is called with the Event as argument.
RECURSIVE DispatchAbort(_, _)
DispatchAbort(H, S) ==
  IF S = {}
    THEN H
    ELSE LET t == CHOOSE x \in S : \A y \in S : x <= y
         IN  DispatchAbort(abort(H, t, "Event"), S \ {t})

\* --------------------------------------------------------------- the state
Heap == [objs |-> objs, timers |-> timers, native |-> native, signal |-> signal]

Commit(H) ==
  /\ objs' = H.objs
  /\ timers' = H.timers
  /\ native' = H.native
  /\ signal' = H.signal

Idle == [id |-> 0, aborted |-> FALSE]

NewHist ==
  [calls |-> 0, fillers |-> 0, armedSum |-> 0, elapsed |-> 0,
   runCalls |-> 0, extAborted |-> FALSE, preAborted |-> FALSE,
   aborts |-> FALSE, threw |-> FALSE, uncaught |-> FALSE, cleared |-> FALSE]

\* The native timers of t that are pending in Ha and were not in Hb.
Armed(Hb, Ha, t) == Pending(Ha.native, t) \ Pending(Hb.native, t)

ArmedMs(Hb, Ha, t) ==
  LET new == Armed(Hb, Ha, t)
  IN  IF new = {} THEN 0 ELSE (CHOOSE n \in new : TRUE).delay

\* History of t when a step may have begun a new repeat cycle.
CycleStart(hs, Hb, Ha, t) ==
  IF Armed(Hb, Ha, t) = {}
    THEN hs
    ELSE [hs EXCEPT !.fillers = 0, !.armedSum = ArmedMs(Hb, Ha, t), !.elapsed = 0]

\* History of t when abort reaches it from the context `c` (the value of cur).
AbortHist(hs, H, c, t) ==
  [hs EXCEPT
     !.extAborted = @ \/ (c.id = 0 /\ H.objs[t].running /\ Pending(H.native, t) # {}),
     !.preAborted = @ \/ (hs.runCalls = 0),
     !.aborts = TRUE]

\* History of t when its callback throws: the error leaves the handler
\* (`throw e`) after abort(), or is swallowed.
ThrowHist(hs, H, c, t) ==
  IF H.objs[t].silent
    THEN [hs EXCEPT !.threw = TRUE]
    ELSE [AbortHist(hs, H, c, t) EXCEPT !.threw = TRUE, !.uncaught = TRUE]

\* The arguments a constructor call may get: a number of milliseconds, NaN
\* or Infinity for the delay; a count, Infinity (no `times`) or a negative
\* number for times.
Num(v) == [k |-> "num", v |-> v]
NaNArg == [k |-> "NaN", v |-> 0]
InfArg == [k |-> "Infinity", v |-> 0]
DelayArgs == {Num(v) : v \in (-1) .. MaxDelay} \cup {NaNArg, InfArg}
TimesArgs == Times \cup {-1}

\* No delay() call yet. promise and value are the state of the returned
\* promise, timeout the closure variable `timeout` (0 for undefined), timer
\* the id of the Timeout it created, reacted whether the reaction
\* `timeout.aborted.then(reject)` has run; first records which came first,
\* the firing of the Timeout or an abort.
NoDelayCall ==
  [promise |-> "none", value |-> "none", timeout |-> 0, timer |-> 0,
   reacted |-> FALSE, first |-> "none"]

\* The value of a promise that is not settled.
NoValue == [k |-> "none", cause |-> "none"]

\* No pTimeout() call yet. ret is the returned promise, p the wrapped one,
\* ictl the internal AbortController `abort`, sigListener whether
\* onSignalAbort is subscribed on the passed signal, timeout the closure
\* variable `timeout` (0 for undefined), timer the id of the Timeout created,
\* awaiting whether run() is suspended at its await, invoked how often the
\* promise-producing function was called. fired, pFirst, first, cleared,
\* preAborted, sigBeforeP and sigBoth record the order of the events.
NoPTimeoutCall ==
  [called |-> FALSE, inf |-> FALSE, hasSignal |-> FALSE, isFn |-> FALSE,
   fb |-> "none", failError |-> FALSE, failMessage |-> FALSE,
   ret |-> [state |-> "none", value |-> NoValue], p |-> "none",
   ictl |-> [aborted |-> FALSE, reason |-> "none"], sigListener |-> FALSE,
   timeout |-> 0, timer |-> 0, awaiting |-> FALSE, invoked |-> 0,
   fired |-> FALSE, pFirst |-> FALSE, first |-> "none", cleared |-> FALSE,
   preAborted |-> FALSE, sigBeforeP |-> FALSE, sigBoth |-> FALSE]

\* new Every(time): no interval yet, #limit = Infinity. ignored and asked
\* record a limit(n) call that came while an interval existed.
NewEvery == [interval |-> 0, limit |-> Infinity, ignored |-> FALSE, asked |-> 0]

Init ==
  /\ objs = <<>>
  /\ timers = {}
  /\ nextId = FirstId
  /\ native = {}
  /\ signal = [aborted |-> FALSE, reason |-> "undefined", listeners |-> {}]
  /\ cur = Idle
  /\ hist = <<>>
  /\ lastNew = [delay |-> Num(0), times |-> Infinity, error |-> "none"]
  /\ api = NoDelayCall
  /\ pt = NoPTimeoutCall
  /\ every = NewEvery
  /\ keep = [persistent |-> <<>>, unrefd |-> {}, options |-> <<>>]

\* ------------------------------------------------------------- the actions
\* new Timeout(cb, d, {signal, silent}) is the case n = 1;
\* new Interval(cb, d, {signal, silent, times}) the general one.
Construct(d, n, s, sil) ==
  LET id == nextId
      H1 == construct(Heap, id, d, n, s, sil)
  IN  /\ cur.id = 0
      /\ Commit(H1)
      /\ nextId' = nextId + 1
      /\ hist' = [x \in DOMAIN hist \cup {id} |->
                    IF x = id
                      THEN [NewHist EXCEPT !.preAborted = s /\ signal.aborted,
                                           !.aborts = s /\ signal.aborted]
                      ELSE hist[x]]
      /\ UNCHANGED cur

\* timer.run(), from the top level or from inside the timer's own callback.
Run(t) ==
  LET H1 == run(Heap, t)
  IN  /\ cur.id \in {0, t}
      /\ Commit(H1)
      /\ hist' = [hist EXCEPT
                    ![t] = [CycleStart(@, Heap, H1, t) EXCEPT
                              !.runCalls = Min(@ + 1, 2)]]
      /\ UNCHANGED <<nextId, cur>>

\* timer.abort(reason), from the top level or from inside the timer's own
\* callback.
Abort(t, reason) ==
  /\ cur.id \in {0, t}
  /\ Commit(abort(Heap, t, reason))
  /\ cur' = IF cur.id = t THEN [cur EXCEPT !.aborted = TRUE] ELSE cur
  /\ hist' = [hist EXCEPT ![t] = AbortHist(@, Heap, cur, t)]
  /\ UNCHANGED nextId

\* controller.abort(reason) on the signal's AbortController.
SignalAbort(reason) ==
  LET H0 == [Heap EXCEPT !.signal.aborted = TRUE, !.signal.reason = reason]
      L  == signal.listeners
      H1 == DispatchAbort(H0, L)
  IN  /\ cur.id = 0
      /\ ~signal.aborted
      /\ Commit([H1 EXCEPT !.signal.listeners = {}])
      /\ hist' = [x \in DOMAIN hist |->
                    IF x \in L THEN AbortHist(hist[x], Heap, cur, x) ELSE hist[x]]
      /\ UNCHANGED <<nextId, cur>>

\* A native timer armed by the long-timeout branch of #run expires.
TickFiller(n) ==
  LET t  == n.owner
      Hb == [Heap EXCEPT !.native = @ \ {n}]
      H1 == PrivateRun([Hb EXCEPT !.objs[t].timeLeft = AfterFiller(@)], t)
  IN  /\ cur.id = 0
      /\ n.left = 0
      /\ ~n.firing
      /\ Commit(H1)
      /\ hist' = [hist EXCEPT ![t].fillers = @ + 1,
                              ![t].armedSum = @ + ArmedMs(Hb, H1, t)]
      /\ UNCHANGED <<nextId, cur>>

TickFiring_countsLater(n) ==
  LET t  == n.owner
  IN  /\ cur.id = 0
      /\ n.left = 0
      /\ n.firing
      /\ objs[t].runs < MaxRuns
      /\ Commit([Heap EXCEPT !.native = @ \ {n}])
      /\ cur' = [id |-> t, aborted |-> FALSE]
      /\ hist' = [hist EXCEPT ![t].calls = @ + 1]
      /\ UNCHANGED nextId

\* A native timer armed by the firing branch of #run expires: _runs++ and
\* the callback is entered.
TickFiring(n) ==
  LET t  == n.owner
      Hb == [Heap EXCEPT !.native = @ \ {n}]
  IN  /\ cur.id = 0
      /\ n.left = 0
      /\ n.firing
      /\ objs[t].runs < MaxRuns
      /\ Commit([Hb EXCEPT !.objs[t].runs = @ + 1])
      /\ cur' = [id |-> t, aborted |-> FALSE]
      /\ hist' = [hist EXCEPT ![t].calls = @ + 1]
      /\ UNCHANGED nextId

\* The callback returns normally.
CbReturn(t) ==
  LET H1 == AfterCallback(Heap, t)
  IN  /\ cur.id = t
      /\ Commit(H1)
      /\ cur' = Idle
      /\ hist' = [hist EXCEPT ![t] = CycleStart(@, Heap, H1, t)]
      /\ UNCHANGED nextId

CbThrow_neverAborts(t) ==
  LET H1 == AfterCallback(Heap, t)
  IN  /\ cur.id = t
      /\ Commit(H1)
      /\ cur' = Idle
      /\ hist' = [hist EXCEPT ![t] = ThrowHist(CycleStart(@, Heap, H1, t), Heap, cur, t)]
      /\ UNCHANGED nextId

CbThrow_alwaysAborts(t) ==
  LET H1 == abort(Heap, t, "undefined")
  IN  /\ cur.id = t
      /\ Commit(H1)
      /\ cur' = Idle
      /\ hist' = [hist EXCEPT ![t] = ThrowHist(CycleStart(@, Heap, H1, t), Heap, cur, t)]
      /\ UNCHANGED nextId

\* The callback throws: abort and rethrow, unless `silent`.
CbThrow(t) ==
  LET H1 == IF objs[t].silent
              THEN AfterCallback(Heap, t)
              ELSE abort(Heap, t, "undefined")
  IN  /\ cur.id = t
      /\ Commit(H1)
      /\ cur' = Idle
      /\ hist' = [hist EXCEPT ![t] = ThrowHist(CycleStart(@, Heap, H1, t), Heap, cur, t)]
      /\ UNCHANGED nextId

\* One millisecond passes while no handler runs.
Advance ==
  /\ cur.id = 0
  /\ \E n \in native : n.left > 0
  /\ native' = {[n EXCEPT !.left = IF @ > 0 THEN @ - 1 ELSE 0] : n \in native}
  /\ hist' = [t \in DOMAIN hist |->
                IF Pending(native, t) # {}
                  THEN [hist[t] EXCEPT !.elapsed = Min(@ + 1, objs[t].delay)]
                  ELSE hist[t]]
  /\ UNCHANGED <<objs, timers, nextId, signal, cur>>

\* Math.sign(delay)
MathSign(a) ==
  IF a.k = "NaN"
    THEN NaNArg
    ELSE Num(IF a.k = "Infinity" \/ a.v > 0 THEN 1 ELSE IF a.v < 0 THEN -1 ELSE 0)

DelayError_lessThanZero(a) ==
  IF a.k = "num" /\ a.v < 0 THEN "TypeError" ELSE "none"

\* The constructor's checks of delay: `![1, 0].includes(Math.sign(delay))`,
\* then `delay === Infinity`; both throw a TypeError.
DelayError(a) ==
  IF MathSign(a) \notin {Num(1), Num(0)}
    THEN "TypeError"
    ELSE IF a.k = "Infinity" THEN "TypeError" ELSE "none"

\* The constructor's check of times: `times < 0` throws an Error.
TimesError(n) == IF n < 0 THEN "Error" ELSE "none"

\* The Timers whose constructor returned, so that the caller holds the
\* object: the constructor returns exactly when times passed its check.
Held == {t \in Ids : TimesError(objs[t].times) = "none"}

\* new Timeout(...) / new Interval(...) with any arguments.  The checks of
\* delay come before any effect; the check of times comes last, after the
\* id, the timers entry and the signal subscription, so a call that throws
\* there has had all the effects of Construct but hands out no object.
New(a, n, s, sil) ==
  /\ cur.id = 0
  /\ lastNew' = [delay |-> a, times |-> n,
                 error |-> IF DelayError(a) # "none" THEN DelayError(a) ELSE TimesError(n)]
  /\ IF DelayError(a) # "none"
       THEN UNCHANGED <<objs, timers, nextId, native, signal, cur, hist>>
       ELSE Construct(a.v, n, s, sil)
  /\ UNCHANGED <<api, pt, every, keep>>

Next ==
  \/ \E a \in DelayArgs, n \in TimesArgs, s \in BOOLEAN, sil \in BOOLEAN :
        nextId = FirstId /\ New(a, n, s, sil)
  \/ (\E t \in Held : Run(t)) /\ UNCHANGED <<lastNew, api, pt, every, keep>>
  \/ (\E t \in Held, r \in Reasons : Abort(t, r)) /\ UNCHANGED <<lastNew, api, pt, every, keep>>
  \/ (\E r \in Reasons : SignalAbort(r)) /\ UNCHANGED <<lastNew, api, pt, every, keep>>
  \/ (\E n \in native : TickFiller(n)) /\ UNCHANGED <<lastNew, api, pt, every, keep>>
  \/ (\E n \in native : TickFiring(n)) /\ UNCHANGED <<lastNew, api, pt, every, keep>>
  \/ (\E t \in Ids : CbReturn(t)) /\ UNCHANGED <<lastNew, api, pt, every, keep>>
  \/ (\E t \in Ids : CbThrow(t)) /\ UNCHANGED <<lastNew, api, pt, every, keep>>
  \/ Advance /\ UNCHANGED <<lastNew, api, pt, every, keep>>

Spec == Init /\ [][Next]_vars

\* ------------------------------------------- timers handled by their ids
MaxTimers == 2            \* how many timers setTimeout and its kin start

\* setTimeout(cb, d) (n = 1), setInterval(cb, d) (n = Infinity),
\* times(cb, d, n), timeout(cb, d), interval(cb, d, {times: n}): construct
\* the timer, run it and return its id.
SetTimer(d, n) ==
  LET id == nextId
      H1 == construct(Heap, id, d, n, FALSE, FALSE)
      H2 == run(H1, id)
  IN  /\ cur.id = 0
      /\ Commit(H2)
      /\ nextId' = nextId + 1
      /\ hist' = [x \in DOMAIN hist \cup {id} |->
                    IF x = id
                      THEN [CycleStart(NewHist, H1, H2, id) EXCEPT !.runCalls = 1]
                      ELSE hist[x]]
      /\ UNCHANGED <<cur, lastNew, api, pt, every, keep>>

\* clearTimeout(id) / clearInterval(id): `timers.get(id)?.abort()`, from the
\* top level or from inside a callback.
ClearTimeout(id) ==
  IF id \in timers
    THEN /\ Commit(abort(Heap, id, "undefined"))
         /\ cur' = IF cur.id = id THEN [cur EXCEPT !.aborted = TRUE] ELSE cur
         /\ hist' = [hist EXCEPT ![id] = [AbortHist(@, Heap, cur, id) EXCEPT !.cleared = TRUE]]
         /\ UNCHANGED <<nextId, lastNew, api, pt, every, keep>>
    ELSE UNCHANGED vars

NextIds ==
  \/ \E n \in {1, Infinity} : nextId <= MaxTimers /\ SetTimer(0, n)
  \/ \E id \in 0 .. MaxTimers : ClearTimeout(id)
  \/ (\E n \in native : TickFiring(n)) /\ UNCHANGED <<lastNew, api, pt, every, keep>>
  \/ (\E t \in Ids : CbReturn(t)) /\ UNCHANGED <<lastNew, api, pt, every, keep>>
  \/ (\E t \in Ids : CbThrow(t)) /\ UNCHANGED <<lastNew, api, pt, every, keep>>

SpecIds == Init /\ [][NextIds]_vars

TypeOK ==
  /\ nextId \in Nat
  /\ timers \subseteq Ids
  /\ cur.id \in {0} \cup Ids
  /\ \A t \in Ids : objs[t].timeLeft \in 0 .. MaxDelay /\ objs[t].runs \in 0 .. MaxRuns
  /\ \A n \in native : n.owner \in Ids /\ n.left \in 0 .. n.delay

\* ------------------------------------------------------------ the properties
InCallback(t) == cur.id = t

\* C1: a Timer with a finite times = N >= 1 whose run() was called once and
\* that was never aborted has had its callback invoked at most N times; ran
\* is true exactly when the N-th invocation has returned, and running is
\* true exactly until then.
C1_RepeatCountExact ==
  \A t \in Ids :
    LET o == objs[t]
    IN  (o.times \in 1 .. MaxTimes /\ hist[t].runCalls = 1 /\ ~o.isAborted) =>
          /\ hist[t].calls <= o.times
          /\ o.ran <=> (hist[t].calls = o.times /\ ~InCallback(t))
          /\ o.running <=> ~o.ran

C1_Witness ==
  \E t \in Ids :
    /\ objs[t].times = 2 /\ hist[t].runCalls = 1 /\ ~objs[t].isAborted
    /\ hist[t].calls = 2 /\ objs[t].ran /\ ~objs[t].running

\* C2: once abort() has been called from outside the callback on a running
\* Timer with a native tick pending, the callback is not invoked any more.
C2_NoFireAfterAbort ==
  [][\A t \in Ids : hist[t].extAborted =>
        /\ hist'[t].calls = hist[t].calls
        /\ Pending(native', t) = {}]_vars

C2_Witness ==
  \E t \in Ids :
    /\ hist[t].extAborted /\ hist[t].calls = 1 /\ hist[t].runCalls = 2
    /\ objs[t].delay > TIMEOUT_MAX /\ hist[t].elapsed = objs[t].delay - 1

\* C3: when abort() is called inside the callback of a Timer whose runs
\* have not reached times, the end of the callback arms no native tick.
C3_NoRearmAfterInnerAbort ==
  [][\A t \in Ids :
        (InCallback(t) /\ cur.aborted /\ objs[t].runs < objs[t].times) =>
          Pending(native', t) = {}]_vars

\* C4: when the callback is invoked, the native timers armed in the cycle
\* add up to the Timer's delay, and at least that much time has passed
\* since the cycle began.
C4_SegmentsSumToDelay ==
  \A t \in Ids :
    InCallback(t) =>
      /\ hist[t].armedSum = objs[t].delay
      /\ hist[t].elapsed >= objs[t].delay

C4_Witness ==
  \E t \in Ids :
    /\ InCallback(t) /\ objs[t].delay = 2 * TIMEOUT_MAX + 1
    /\ hist[t].calls = 2 /\ hist[t].armedSum = objs[t].delay

\* C5 as claimed: a cycle of delay k*CAP + r (0 <= r < CAP) has k fillers.
C5_FillersQuotient ==
  \A t \in Ids : InCallback(t) => hist[t].fillers = objs[t].delay \div TIMEOUT_MAX

\* C5, amended: a cycle of delay k*CAP + r (0 <= r < CAP) has k filler ticks
\* when r > 0 or k = 0, and k - 1 when r = 0 and k >= 1, before its one
\* firing tick.
C5_FillersAmended ==
  \A t \in Ids :
    LET k == objs[t].delay \div TIMEOUT_MAX
        r == objs[t].delay % TIMEOUT_MAX
    IN  /\ InCallback(t) => hist[t].fillers = IF r > 0 \/ k = 0 THEN k ELSE k - 1
        /\ \A n \in Pending(native, t) :
              n.firing <=> hist[t].fillers = (IF r > 0 \/ k = 0 THEN k ELSE k - 1)

C5_Witness ==
  \E t \in Ids :
    InCallback(t) /\ objs[t].delay = 2 * TIMEOUT_MAX /\ hist[t].fillers = 1

\* C6: a delay of CAP is armed as one firing tick of CAP and no filler; a
\* delay of CAP + 1 as one filler tick of CAP, then a firing tick of 1 ms.
C6_BoundaryDelays ==
  \A t \in Ids :
    /\ objs[t].delay = TIMEOUT_MAX =>
          /\ InCallback(t) => hist[t].fillers = 0
          /\ \A n \in Pending(native, t) : n.firing /\ n.delay = TIMEOUT_MAX
    /\ objs[t].delay = TIMEOUT_MAX + 1 =>
          /\ InCallback(t) => hist[t].fillers = 1
          /\ \A n \in Pending(native, t) :
                IF n.firing
                  THEN n.delay = 1 /\ hist[t].fillers = 1
                  ELSE n.delay = TIMEOUT_MAX /\ hist[t].fillers = 0

C6_Witness ==
  \E t \in Ids :
    InCallback(t) /\ objs[t].delay = TIMEOUT_MAX + 1 /\ hist[t].fillers = 1

\* C7: once ran is true the Timer has no native timer pending and is not
\* running, whatever run() calls follow.
C7_RunAfterRanIgnored ==
  \A t \in Ids : objs[t].ran => (~objs[t].running /\ Pending(native, t) = {})

\* C8: once a Timer with times = 1 has fired, nothing changes isAborted,
\* ran or the aborted promise any more; abort() in particular is a no-op.
C8_AbortAfterFiredNoOp ==
  [][\A t \in Ids :
        (objs[t].times = 1 /\ objs[t].ran) =>
          /\ objs'[t].isAborted = objs[t].isAborted
          /\ objs'[t].ran
          /\ objs'[t].aborted = objs[t].aborted]_vars

\* C9: a Timer whose runs are complete is no key of the timers map and
\* its abort listener is not subscribed to the signal.
C9_CompletionUnregisters ==
  \A t \in Ids : objs[t].ran => (t \notin timers /\ t \notin signal.listeners)

C9_Witness ==
  \E t \in Ids :
    /\ objs[t].ran /\ objs[t].signal /\ ~signal.aborted /\ ~objs[t].isAborted
    /\ objs[t].times = 2 /\ t \notin timers

\* C10: a Timer that was aborted before run() was ever called (by a signal
\* already aborted at construction, or one firing before run()) is aborted
\* from then on, never arms a native timer and never invokes its callback.
C10_AbortedBeforeRun ==
  \A t \in Ids :
    hist[t].preAborted =>
      /\ objs[t].isAborted
      /\ hist[t].calls = 0
      /\ Pending(native, t) = {}
      /\ ~objs[t].running

C10_Witness ==
  \E t \in Ids :
    /\ hist[t].preAborted /\ objs[t].signal /\ signal.aborted
    /\ objs[t].aborted = "R" /\ hist[t].runCalls = 2 /\ objs[t].isAborted

\* --------------------------------------------------- fair native expiry
TickFiringOn_capped(n) ==
  /\ objs[n.owner].runs < MaxRuns
  /\ TickFiring(n)

\* TickFiring without the cap on the number of firings: _runs and the count
\* of invocations stop counting at MaxRuns, which is above every finite
\* `times`, so `_runs === times` decides as it does for the real counter.
TickFiringOn(n) ==
  LET t  == n.owner
      Hb == [Heap EXCEPT !.native = @ \ {n}]
  IN  /\ cur.id = 0
      /\ n.left = 0
      /\ n.firing
      /\ Commit([Hb EXCEPT !.objs[t].runs = Min(@ + 1, MaxRuns)])
      /\ cur' = [id |-> t, aborted |-> FALSE]
      /\ hist' = [hist EXCEPT ![t].calls = Min(@ + 1, MaxRuns)]
      /\ UNCHANGED nextId

Expire == (\E n \in native : TickFiller(n) \/ TickFiringOn(n)) /\ UNCHANGED <<lastNew, api, pt, every, keep>>
CallbackEnds == (\E t \in Ids : CbReturn(t) \/ CbThrow(t)) /\ UNCHANGED <<lastNew, api, pt, every, keep>>
TimePasses == Advance /\ UNCHANGED <<lastNew, api, pt, every, keep>>

NextLive ==
  \/ \E a \in {Num(0), Num(TIMEOUT_MAX + 1), Num(MaxDelay)}, n \in {1, Infinity},
        s \in BOOLEAN, sil \in BOOLEAN :
        nextId = FirstId /\ New(a, n, s, sil)
  \/ (\E t \in Held : Run(t)) /\ UNCHANGED <<lastNew, api, pt, every, keep>>
  \/ (\E t \in Held, r \in Reasons : Abort(t, r)) /\ UNCHANGED <<lastNew, api, pt, every, keep>>
  \/ (\E r \in Reasons : SignalAbort(r)) /\ UNCHANGED <<lastNew, api, pt, every, keep>>
  \/ Expire
  \/ CallbackEnds
  \/ TimePasses

\* The host's event loop: time passes, a native timer that is due expires
\* and a callback that was entered ends.
SpecLive ==
  /\ Init /\ [][NextLive]_vars
  /\ WF_vars(Expire) /\ WF_vars(CallbackEnds) /\ WF_vars(TimePasses)

\* -------------------------------------------------------------- delay()
\* The reaction registered on the Timeout's aborted promise is due.
ReactionDue ==
  /\ api.promise # "none"
  /\ ~api.reacted
  /\ objs[api.timer].aborted # "pending"

\* delay(d, {signal}): the executor constructs the Timeout (times: 1),
\* registers `timeout.aborted.then(reject)` and runs it.
DelayCall(d, s) ==
  LET id == nextId
      H1 == construct(Heap, id, d, 1, s, FALSE)
      H2 == run(H1, id)
  IN  /\ cur.id = 0
      /\ api.promise = "none"
      /\ nextId = FirstId
      /\ Commit(H2)
      /\ nextId' = nextId + 1
      /\ hist' = [x \in DOMAIN hist \cup {id} |->
                    IF x = id
                      THEN [CycleStart(NewHist, H1, H2, id) EXCEPT
                              !.runCalls = 1,
                              !.aborts = s /\ signal.aborted,
                              !.preAborted = s /\ signal.aborted]
                      ELSE hist[x]]
      /\ api' = [promise |-> "pending", value |-> "none", timeout |-> id,
                 timer |-> id, reacted |-> FALSE,
                 first |-> IF s /\ signal.aborted THEN "aborted" ELSE "none"]
      /\ UNCHANGED <<cur, lastNew, pt, every, keep>>

\* abortablePromise.abort(), called by the holder of the promise.
DelayAbort ==
  LET t == api.timeout
  IN  /\ cur.id = 0
      /\ api.promise # "none"
      /\ IF t # 0
           THEN /\ Commit(abort(Heap, t, "undefined"))
                /\ hist' = [hist EXCEPT ![t] = AbortHist(@, Heap, cur, t)]
           ELSE UNCHANGED <<objs, timers, native, signal, hist>>
      /\ api' = [api EXCEPT !.timeout = 0,
                            !.first = IF @ = "none" /\ t # 0 THEN "aborted" ELSE @]
      /\ UNCHANGED <<nextId, cur, lastNew, pt, every, keep>>

\* controller.abort(reason) on the signal given to delay().
DelaySignalAbort(reason) ==
  /\ SignalAbort(reason)
  /\ api' = [api EXCEPT
               !.first = IF @ = "none" /\ api.timer \in signal.listeners
                           THEN "aborted" ELSE @]
  /\ UNCHANGED <<lastNew, pt, every, keep>>

Reaction_overwrites ==
  /\ ReactionDue
  /\ api' = [api EXCEPT !.reacted = TRUE,
                        !.promise = "rejected",
                        !.value = objs[api.timer].aborted]
  /\ UNCHANGED <<objs, timers, nextId, native, signal, cur, hist, lastNew, pt, every, keep>>

\* The microtask of `timeout.aborted.then(reject)`: reject(exception), which
\* settles the promise only if it is still pending.
Reaction ==
  /\ ReactionDue
  /\ api' = [api EXCEPT !.reacted = TRUE,
                        !.promise = IF @ = "pending" THEN "rejected" ELSE @,
                        !.value = IF api.promise = "pending"
                                    THEN objs[api.timer].aborted ELSE @]
  /\ UNCHANGED <<objs, timers, nextId, native, signal, cur, hist, lastNew, pt, every, keep>>

\* The firing tick of the Timeout of delay(): _runs++, the callback
\* `abortablePromise.abort(); resolve()`, and the rest of the firing closure.
\* A native handler starts only when no microtask is left.
DelayFire(n) ==
  LET t  == n.owner
      Hb == [Heap EXCEPT !.native = @ \ {n}, !.objs[t].runs = @ + 1]
      H1 == IF api.timeout # 0 THEN abort(Hb, api.timeout, "undefined") ELSE Hb
      H2 == AfterCallback(H1, t)
      c  == [id |-> t, aborted |-> FALSE]
  IN  /\ cur.id = 0
      /\ ~ReactionDue
      /\ n.left = 0
      /\ n.firing
      /\ objs[t].runs < MaxRuns
      /\ Commit(H2)
      /\ hist' = [hist EXCEPT
                    ![t] = [(IF api.timeout # 0 THEN AbortHist(@, Hb, c, t) ELSE @)
                              EXCEPT !.calls = @ + 1]]
      /\ api' = [api EXCEPT !.timeout = 0,
                            !.promise = IF @ = "pending" THEN "resolved" ELSE @,
                            !.first = IF @ = "none" THEN "fired" ELSE @]
      /\ UNCHANGED <<nextId, cur, lastNew, pt, every, keep>>

DelayFiller == (\E n \in native : ~ReactionDue /\ TickFiller(n)) /\ UNCHANGED <<lastNew, api, pt, every, keep>>
DelayExpire == \E n \in native : DelayFire(n)

NextDelay ==
  \/ \E d \in Delays, s \in BOOLEAN : DelayCall(d, s)
  \/ DelayAbort
  \/ \E r \in Reasons : DelaySignalAbort(r)
  \/ Reaction
  \/ DelayFiller
  \/ DelayExpire
  \/ TimePasses

\* The event loop runs the microtasks, lets time pass and expires the
\* native timers that are due.
SpecDelay ==
  /\ Init /\ [][NextDelay]_vars
  /\ WF_vars(Reaction) /\ WF_vars(DelayFiller) /\ WF_vars(DelayExpire)
  /\ WF_vars(TimePasses)

\* C11: a Timer constructed with a signal that is already aborted has no
\* entry in the timers map and is not running right after construction.
C11_NoEntryWhenPreAborted ==
  [][(nextId' # nextId /\ signal.aborted /\ objs'[nextId].signal
        /\ TimesError(objs'[nextId].times) = "none") =>
       (nextId \notin timers' /\ ~objs'[nextId].running)]_vars

\* C12: a Timer that completed its runs and on which abort was never called
\* (by the caller, the signal or the constructor) has its aborted promise
\* pending and isAborted false.
C12_CompletionKeepsAbortedPending ==
  \A t \in Ids :
    (objs[t].ran /\ ~hist[t].aborts) =>
      (objs[t].aborted = "pending" /\ ~objs[t].isAborted)

C12_Witness ==
  \E t \in Ids :
    /\ objs[t].ran /\ ~hist[t].aborts /\ objs[t].times = 2
    /\ objs[t].signal /\ signal.aborted /\ objs[t].aborted = "pending"

\* C14: a constructor call with a negative, NaN or Infinity delay or with
\* negative times has thrown; no object with such a delay is handed out and
\* no native timer belongs to a Timer whose constructor threw.
C14_InvalidArgsThrowAtOnce ==
  LET a == lastNew.delay
  IN  /\ (a.k \in {"NaN", "Infinity"} \/ a.v < 0 \/ lastNew.times < 0) =>
            lastNew.error \in {"TypeError", "Error"}
      /\ (a.k \in {"NaN", "Infinity"} \/ a.v < 0) =>
            (lastNew.error = "TypeError" /\ Held = {})
      /\ \A t \in Held : objs[t].delay >= 0
      /\ \A n \in native : n.owner \in Held

C14_Witness ==
  /\ lastNew.delay = NaNArg /\ lastNew.error = "TypeError"
  /\ Ids = {} /\ signal.aborted

\* C15: the callback of a Timer with times = 0 is never invoked.
C15_TimesZeroNeverFires ==
  \A t \in Ids : objs[t].times = 0 => hist[t].calls = 0

\* C16: once the callback of a Timer that is not silent has thrown, the
\* error has left the handler and the Timer is aborted, not running, no key
\* of timers and has no native timer pending, so it never fires again.
C16_ThrowAborts ==
  \A t \in Ids :
    (hist[t].threw /\ ~objs[t].silent) =>
      /\ hist[t].uncaught
      /\ objs[t].isAborted /\ ~objs[t].running
      /\ t \notin timers
      /\ Pending(native, t) = {} /\ ~InCallback(t)

C16_Witness ==
  \E t \in Ids :
    /\ hist[t].threw /\ ~objs[t].silent /\ hist[t].uncaught
    /\ objs[t].times = Infinity /\ hist[t].calls = 2 /\ objs[t].isAborted

\* C17: a throw in the callback of a silent Timer (run once, never aborted)
\* is swallowed: the Timer is not aborted, the invocation counted as a run,
\* and after it the Timer is finished or re-armed with exactly one native
\* timer, as after a normal return.
C17_SilentThrowContinues ==
  \A t \in Ids :
    (hist[t].threw /\ objs[t].silent /\ ~hist[t].aborts /\ hist[t].runCalls = 1) =>
      /\ ~hist[t].uncaught /\ ~objs[t].isAborted
      /\ objs[t].runs = hist[t].calls
      /\ ~InCallback(t) =>
            IF RunsFinished(objs[t])
              THEN objs[t].ran /\ ~objs[t].running /\ Pending(native, t) = {}
              ELSE ~objs[t].ran /\ objs[t].running
                   /\ Cardinality(Pending(native, t)) = 1

C17_Witness ==
  \E t \in Ids :
    /\ hist[t].threw /\ objs[t].silent /\ ~hist[t].aborts /\ hist[t].runCalls = 1
    /\ objs[t].times = Infinity /\ hist[t].calls = 2 /\ Pending(native, t) # {}

\* C18: when the signal fires with reason R, every subscribed Timer becomes
\* aborted and its aborted promise resolves with cause R.
C18_SignalCauseIsReason ==
  [][(~signal.aborted /\ signal'.aborted) =>
       \A t \in signal.listeners :
         objs'[t].isAborted /\ objs'[t].aborted = signal'.reason]_vars

\* C13: after clearTimeout(id) / clearInterval(id) with the id of a started
\* timer, that timer's callback is not invoked any more, and the call
\* changes no other timer's fields, pending tick or timers entry.
C13_ClearByIdStopsOnlyThatTimer ==
  [][\A t \in Ids :
       /\ hist[t].cleared => hist'[t].calls = hist[t].calls
       /\ (~hist[t].cleared /\ hist'[t].cleared) =>
            /\ objs'[t].isAborted
            /\ \A u \in Ids \ {t} :
                 /\ objs'[u] = objs[u]
                 /\ Pending(native', u) = Pending(native, u)
                 /\ (u \in timers') <=> (u \in timers)]_vars

\* C19: a Timer without a `times` limit that was run and on which abort was
\* never called (by the caller, its signal or a throwing callback) is
\* running, has not set ran and has its next firing pending or its callback
\* executing; with fair native expiry its callback is entered again and
\* again without end.
C19_UnboundedRunsForever ==
  LET t == FirstId
      unbounded == /\ t \in Ids
                   /\ objs[t].times = Infinity
                   /\ hist[t].runCalls >= 1
                   /\ ~hist[t].aborts
  IN  /\ [](unbounded =>
             /\ objs[t].running /\ ~objs[t].ran
             /\ objs[t].runs = hist[t].calls
             /\ (Cardinality(Pending(native, t)) = 1) # InCallback(t))
      /\ []<>(~unbounded \/ InCallback(t))
      /\ []<>(~unbounded \/ ~InCallback(t))

C19_Witness ==
  /\ FirstId \in Ids
  /\ objs[FirstId].times = Infinity /\ ~hist[FirstId].aborts
  /\ objs[FirstId].delay > TIMEOUT_MAX
  /\ hist[FirstId].calls = MaxRuns /\ objs[FirstId].running
  /\ Pending(native, FirstId) # {}

\* C20: the promise of delay() is resolved if the Timeout fired before any
\* abort, and rejected with the AbortException of the Timeout once the
\* reaction has run if the signal (also one aborted before the call) or
\* abort() came first; a settled promise never changes, whatever the signal
\* does afterwards, and a pending one is settled in the end.
C20_DelaySettlesOnce ==
  /\ [](api.promise # "none" =>
          /\ api.first = "none" => api.promise = "pending"
          /\ api.first = "fired" => api.promise = "resolved"
          /\ api.first = "aborted" =>
               /\ hist[api.timer].calls = 0
               /\ IF api.reacted
                    THEN /\ api.promise = "rejected"
                         /\ api.value = objs[api.timer].aborted
                         /\ api.value # "pending"
                    ELSE api.promise = "pending")
  /\ [][api.promise \in {"resolved", "rejected"} =>
          (api'.promise = api.promise /\ api'.value = api.value)]_vars
  /\ (api.promise = "pending") ~> (api.promise \in {"resolved", "rejected"})

C20_Witness ==
  /\ api.promise = "resolved" /\ api.first = "fired" /\ api.reacted
  /\ objs[api.timer].signal /\ signal.aborted
  /\ objs[api.timer].delay > TIMEOUT_MAX

\* ------------------------------------------------------------- pTimeout()
\* The values the promises of pTimeout settle with.
AbortException(c) == [k |-> "AbortException", cause |-> c]
PError == [k |-> "error of the wrapped promise", cause |-> "none"]
FallbackError == [k |-> "error of fallbackFn", cause |-> "none"]
PValue == [k |-> "value of the wrapped promise", cause |-> "none"]

TimeoutRejection_noFailError(P) ==
  [k |-> "TimeoutError",
   cause |-> IF P.failMessage
               THEN "failMessage"
               ELSE "Promise timed out after <delay> milliseconds"]

\* What the timeout callback rejects with: failError, or a TimeoutError
\* with failMessage or the default message.
TimeoutRejection(P) ==
  IF P.failError
    THEN [k |-> "failError", cause |-> "none"]
    ELSE [k |-> "TimeoutError",
          cause |-> IF P.failMessage
                      THEN "failMessage"
                      ELSE "Promise timed out after <delay> milliseconds"]

Settled == {"resolved", "rejected"}

\* resolve(v) and reject(x) of the returned promise act only while it is
\* pending; resolve(q) with a promise q makes it follow q.
Resolve(P, v) ==
  IF P.ret.state = "pending"
    THEN [P EXCEPT !.ret = [state |-> "resolved", value |-> v]]
    ELSE P

Reject(P, x) ==
  IF P.ret.state = "pending"
    THEN [P EXCEPT !.ret = [state |-> "rejected", value |-> x]]
    ELSE P

ResolveWith(P, q) ==
  IF P.ret.state = "pending"
    THEN [P EXCEPT !.ret = [state |-> "locked", value |-> [k |-> q, cause |-> "none"]]]
    ELSE P

\* abort.abort(x) on the internal controller: the first call sets the reason
\* and runs the listener, which unsubscribes onSignalAbort and rejects.
IctlAbort(P, x) ==
  IF P.ictl.aborted
    THEN P
    ELSE Reject([P EXCEPT !.ictl = [aborted |-> TRUE, reason |-> x],
                          !.sigListener = FALSE], x)

\* The inputs of a pTimeout call.
PTDelays == {Num(0), Num(TIMEOUT_MAX + 1), InfArg}
Fallbacks == {"none", "returns", "throws"}

\* pTimeout(promise, delay, options): the executor of the returned promise
\* up to the await of run(). p0 is the state of the wrapped promise when it
\* is handed over or when the function returns it.
PTCall(a, hs, fn, fbk, fe, fm, p0) ==
  LET id    == nextId
      sigAb == hs /\ signal.aborted
      P0    == [NoPTimeoutCall EXCEPT
                  !.called = TRUE, !.inf = (a = InfArg), !.hasSignal = hs,
                  !.isFn = fn, !.fb = fbk, !.failError = fe, !.failMessage = fm,
                  !.ret = [state |-> "pending", value |-> NoValue],
                  !.p = IF fn THEN "none" ELSE p0,
                  !.preAborted = sigAb,
                  !.first = IF sigAb THEN "signal" ELSE "none"]
      early == a = InfArg /\ ~sigAb
      PE    == ResolveWith([P0 EXCEPT !.p = p0, !.invoked = IF fn THEN 1 ELSE 0], "p")
      P1    == IF sigAb THEN IctlAbort(P0, AbortException(signal.reason)) ELSE P0
      P2    == [P1 EXCEPT !.sigListener = hs]
      P3    == IF fn /\ ~sigAb THEN [P2 EXCEPT !.p = p0, !.invoked = 1] ELSE P2
      PX    == Reject(P3, [k |-> DelayError(a), cause |-> "none"])
      H1    == construct(Heap, id, a.v, 1, hs, FALSE)
      H2    == run(H1, id)
      P4    == [P3 EXCEPT !.timeout = id, !.timer = id, !.awaiting = TRUE]
      P5    == IF P4.p = "none" THEN [P4 EXCEPT !.p = p0, !.invoked = @ + 1] ELSE P4
      made  == ~early /\ DelayError(a) = "none"
      P     == IF early THEN PE ELSE IF made THEN P5 ELSE PX
  IN  /\ cur.id = 0
      /\ ~pt.called
      /\ nextId = FirstId
      /\ pt' = [P EXCEPT !.pFirst = P.p \in Settled]
      /\ IF made
           THEN /\ Commit(H2)
                /\ nextId' = nextId + 1
                /\ hist' = [x \in DOMAIN hist \cup {id} |->
                              IF x = id
                                THEN [CycleStart(NewHist, H1, H2, id) EXCEPT
                                        !.runCalls = 1,
                                        !.aborts = sigAb,
                                        !.preAborted = sigAb]
                                ELSE hist[x]]
           ELSE UNCHANGED <<objs, timers, nextId, native, signal, hist>>
      /\ UNCHANGED <<cur, lastNew, api, every, keep>>

\* The wrapped promise settles.
PSettle(o) ==
  /\ pt.called
  /\ pt.p = "pending"
  /\ pt' = [pt EXCEPT !.p = o, !.pFirst = @ \/ ~pt.fired]
  /\ UNCHANGED <<objs, timers, nextId, native, signal, cur, hist, lastNew, api, every, keep>>

\* Microtasks: run() resumes after its await, or the returned promise takes
\* the outcome of the promise it follows.
RunDue == pt.awaiting /\ pt.p \in Settled
FollowDue == pt.ret.state = "locked" /\ pt.ret.value.k = "p" /\ pt.p \in Settled
MicrotaskDue == RunDue \/ FollowDue

RunContinue_keepsTimer ==
  /\ RunDue
  /\ pt' = [(IF pt.p = "resolved" THEN Resolve(pt, PValue) ELSE IctlAbort(pt, PError))
              EXCEPT !.awaiting = FALSE,
                     !.first = IF @ = "none" THEN "settled" ELSE @]
  /\ UNCHANGED <<objs, timers, nextId, native, signal, cur, hist, lastNew, api, every, keep>>

\* run() after the await: resolve(value), or abort.abort(error) in the
\* catch; finally timeout?.abort().
RunContinue ==
  LET P1 == IF pt.p = "resolved" THEN Resolve(pt, PValue) ELSE IctlAbort(pt, PError)
      t  == pt.timeout
  IN  /\ RunDue
      /\ pt' = [P1 EXCEPT !.awaiting = FALSE,
                          !.first = IF @ = "none" THEN "settled" ELSE @]
      /\ IF t # 0
           THEN /\ Commit(abort(Heap, t, "undefined"))
                /\ hist' = [hist EXCEPT ![t] = AbortHist(@, Heap, cur, t)]
           ELSE UNCHANGED <<objs, timers, native, signal, hist>>
      /\ UNCHANGED <<nextId, cur, lastNew, api, every, keep>>

Follow ==
  /\ FollowDue
  /\ pt' = [pt EXCEPT
              !.ret = [state |-> pt.p,
                       value |-> IF pt.p = "resolved" THEN PValue ELSE PError],
              !.first = IF @ = "none" THEN "settled" ELSE @]
  /\ UNCHANGED <<objs, timers, nextId, native, signal, cur, hist, lastNew, api, every, keep>>

PTAbort_onlyForgets ==
  /\ cur.id = 0
  /\ pt.called
  /\ pt' = [pt EXCEPT !.timeout = 0, !.cleared = @ \/ ~pt.fired]
  /\ UNCHANGED <<objs, timers, nextId, native, signal, cur, hist, lastNew, api, every, keep>>

\* abortablePromise.abort(), called by the holder of the promise.
PTAbort ==
  LET t == pt.timeout
  IN  /\ cur.id = 0
      /\ pt.called
      /\ IF t # 0
           THEN /\ Commit(abort(Heap, t, "undefined"))
                /\ hist' = [hist EXCEPT ![t] = AbortHist(@, Heap, cur, t)]
           ELSE UNCHANGED <<objs, timers, native, signal, hist>>
      /\ pt' = [pt EXCEPT !.timeout = 0, !.cleared = @ \/ ~pt.fired]
      /\ UNCHANGED <<nextId, cur, lastNew, api, every, keep>>

PTSignalAbort_timerOnly(reason) ==
  LET on == pt.called /\ pt.hasSignal
  IN  /\ SignalAbort(reason)
      /\ pt' = [pt EXCEPT
                  !.first = IF @ = "none" /\ on THEN "signal" ELSE @,
                  !.sigBeforeP = @ \/ (on /\ pt.p = "pending"),
                  !.sigBoth = @ \/ (on /\ pt.p = "pending"
                                      /\ pt.timer # 0
                                      /\ Pending(native, pt.timer) # {})]
      /\ UNCHANGED <<lastNew, api, every, keep>>

\* controller.abort(reason) on the signal: onSignalAbort runs first, if
\* subscribed, then the listener of the Timeout.
PTSignalAbort(reason) ==
  LET P1 == IF pt.sigListener
              THEN [IctlAbort(pt, AbortException(reason)) EXCEPT !.sigListener = FALSE]
              ELSE pt
      on == pt.called /\ pt.hasSignal
  IN  /\ SignalAbort(reason)
      /\ pt' = [P1 EXCEPT
                  !.first = IF @ = "none" /\ on THEN "signal" ELSE @,
                  !.sigBeforeP = @ \/ (on /\ pt.p = "pending"),
                  !.sigBoth = @ \/ (on /\ pt.p = "pending"
                                      /\ pt.timer # 0
                                      /\ Pending(native, pt.timer) # {})]
      /\ UNCHANGED <<lastNew, api, every, keep>>

\* The firing tick of the Timeout of pTimeout: _runs++, the timeout
\* callback, and the rest of the firing closure. A native handler starts
\* only when no microtask is left.
PTFire(n) ==
  LET t  == n.owner
      Hb == [Heap EXCEPT !.native = @ \ {n}, !.objs[t].runs = @ + 1]
      c  == [id |-> t, aborted |-> FALSE]
      withFb == pt.fb # "none"
      \* fallbackFn: resolve(fallbackFn()) or abort.abort(error); finally
      \* timeout!.abort(). Otherwise abort.abort(timeoutError) and
      \* abortablePromise.abort().
      P1 == IF pt.fb = "returns" THEN ResolveWith(pt, "fallback")
            ELSE IF pt.fb = "throws" THEN IctlAbort(pt, FallbackError)
            ELSE [IctlAbort(pt, TimeoutRejection(pt)) EXCEPT !.timeout = 0]
      aborts == withFb \/ pt.timeout # 0
      H1 == IF aborts THEN abort(Hb, t, "undefined") ELSE Hb
      H2 == AfterCallback(H1, t)
  IN  /\ cur.id = 0
      /\ ~MicrotaskDue
      /\ n.left = 0
      /\ n.firing
      /\ objs[t].runs < MaxRuns
      /\ Commit(H2)
      /\ hist' = [hist EXCEPT
                    ![t] = [(IF aborts THEN AbortHist(@, Hb, c, t) ELSE @)
                              EXCEPT !.calls = @ + 1]]
      /\ pt' = [P1 EXCEPT !.fired = TRUE,
                          !.first = IF @ = "none" THEN "fired" ELSE @]
      /\ UNCHANGED <<nextId, cur, lastNew, api, every, keep>>

PTFiller == (\E n \in native : ~MicrotaskDue /\ TickFiller(n)) /\ UNCHANGED <<lastNew, api, pt, every, keep>>
PTExpire == \E n \in native : PTFire(n)

NextPT ==
  \/ \E a \in PTDelays, hs \in BOOLEAN, fn \in BOOLEAN, fbk \in Fallbacks,
        fe \in BOOLEAN, fm \in BOOLEAN, p0 \in {"pending"} \cup Settled :
        PTCall(a, hs, fn, fbk, fe, fm, p0)
  \/ \E o \in Settled : PSettle(o)
  \/ RunContinue
  \/ Follow
  \/ PTAbort
  \/ \E r \in Reasons : PTSignalAbort(r)
  \/ PTFiller
  \/ PTExpire
  \/ TimePasses

SpecPT == Init /\ [][NextPT]_vars

\* The outcome of the wrapped promise, as the returned promise takes it.
POutcome ==
  [state |-> pt.p, value |-> IF pt.p = "resolved" THEN PValue ELSE PError]

\* C21: when the Timeout of pTimeout (no fallbackFn) has fired, which it
\* only does while the wrapped promise is pending, the returned promise is
\* rejected with failError if given, else with a TimeoutError carrying
\* failMessage or the default message, whatever the wrapped promise does
\* later.
C21_TimeoutRejects ==
  (pt.fired /\ pt.fb = "none") =>
    /\ ~pt.pFirst
    /\ pt.ret.state = "rejected"
    /\ pt.ret.value.k = (IF pt.failError THEN "failError" ELSE "TimeoutError")
    /\ ~pt.failError =>
         pt.ret.value.cause = (IF pt.failMessage
                                 THEN "failMessage"
                                 ELSE "Promise timed out after <delay> milliseconds")

C21_Witness ==
  /\ pt.fired /\ pt.fb = "none" /\ pt.p = "resolved" /\ ~pt.awaiting
  /\ pt.failMessage /\ ~pt.failError
  /\ objs[pt.timer].delay > TIMEOUT_MAX

\* C22: when the wrapped promise settled before the Timeout fired, the
\* timeout callback never runs; and once run() has resumed with that
\* settlement (the signal not having fired first), the returned promise has
\* the outcome of the wrapped promise and the Timeout is aborted with no
\* native timer pending.
C22_PromiseFirst ==
  pt.timer # 0 =>
    /\ pt.pFirst => (~pt.fired /\ hist[pt.timer].calls = 0)
    /\ pt.first = "settled" =>
         /\ pt.ret = POutcome
         /\ objs[pt.timer].isAborted /\ ~objs[pt.timer].running
         /\ Pending(native, pt.timer) = {}

C22_Witness ==
  /\ pt.timer # 0 /\ pt.first = "settled" /\ pt.p = "rejected"
  /\ pt.ret.state = "rejected" /\ pt.hasSignal /\ signal.aborted
  /\ objs[pt.timer].delay = 0 /\ ~pt.cleared

\* C23: pTimeout with delay Infinity constructs no Timer, its promise is
\* settled only when the wrapped promise is settled or the signal has
\* fired, and it is rejected with an AbortException carrying the signal's
\* reason when the signal fired while the wrapped promise was pending.
C23_InfinityFollowsPromiseOrSignal ==
  (pt.called /\ pt.inf) =>
    /\ pt.timer = 0 /\ Ids = {} /\ native = {}
    /\ pt.ret.state \in Settled => (pt.p \in Settled \/ signal.aborted)
    /\ (pt.sigBeforeP \/ pt.preAborted) =>
         pt.ret = [state |-> "rejected", value |-> AbortException(signal.reason)]

\* C24: pTimeout with a promise-producing function and a signal that is
\* already aborted never calls the function, and the returned promise is
\* rejected with an AbortException.
C24_AbortedSignalSkipsFunction ==
  (pt.called /\ pt.isFn /\ pt.preAborted) =>
    /\ pt.invoked = 0
    /\ pt.ret.state = "rejected" /\ pt.ret.value.k = "AbortException"

\* C25: when the signal fired while the wrapped promise and the Timeout
\* were both pending, the returned promise is rejected with an
\* AbortException whose cause is the signal's reason, the Timeout is aborted
\* and never fires, and the internal signal is aborted.
C25_SignalAbortsBoth ==
  pt.sigBoth =>
    /\ pt.ret = [state |-> "rejected", value |-> AbortException(signal.reason)]
    /\ objs[pt.timer].isAborted /\ ~objs[pt.timer].running
    /\ Pending(native, pt.timer) = {}
    /\ ~pt.fired /\ hist[pt.timer].calls = 0
    /\ pt.ictl.aborted

C25_Witness ==
  /\ pt.sigBoth /\ pt.isFn /\ pt.invoked = 1 /\ signal.reason = "R"
  /\ pt.ret.value = AbortException("R") /\ pt.p = "resolved" /\ ~pt.awaiting

\* C26: after abort() on the returned promise, called before the Timeout
\* fired, the timeout callback never runs and the returned promise is
\* never rejected with a timeout error: when it is settled, it has the
\* outcome of the wrapped promise, or the AbortException of the signal if
\* that fired first.
C26_AbortCancelsOnlyTimeout ==
  pt.cleared =>
    /\ ~pt.fired
    /\ pt.timer # 0 =>
         (hist[pt.timer].calls = 0 /\ Pending(native, pt.timer) = {})
    /\ pt.ret.state \in Settled =>
         (pt.ret = POutcome \/ pt.ret.value.k \in {"AbortException"})
    /\ pt.first = "settled" => pt.ret = POutcome

C26_Witness ==
  /\ pt.cleared /\ pt.first = "settled" /\ pt.ret.state = "resolved"
  /\ pt.timer # 0 /\ objs[pt.timer].delay = 0
  /\ ~objs[pt.timer].signal

\* ------------------------------------------------------------------ Every
\* The time of the Every instance, in milliseconds.
EveryTime == 0

EveryLimit_always(n) ==
  /\ every' = [every EXCEPT !.limit = n,
                            !.ignored = every.interval # 0, !.asked = n]
  /\ UNCHANGED <<objs, timers, nextId, native, signal, cur, hist, lastNew, api, pt, keep>>

\* every.limit(n): sets #limit unless an interval exists.
EveryLimit(n) ==
  /\ every' = IF every.interval # 0
                THEN [every EXCEPT !.ignored = TRUE, !.asked = n]
                ELSE [every EXCEPT !.limit = n, !.ignored = FALSE, !.asked = n]
  /\ UNCHANGED <<objs, timers, nextId, native, signal, cur, hist, lastNew, api, pt, keep>>

\* every.do(cb), from the top level: aborts the interval that exists, then
\* constructs and runs a new Interval with times = #limit.
EveryDo ==
  LET old == every.interval
      id  == nextId
      H0  == IF old # 0 THEN abort(Heap, old, "undefined") ELSE Heap
      H1  == construct(H0, id, EveryTime, every.limit, FALSE, FALSE)
      H2  == run(H1, id)
  IN  /\ cur.id = 0
      /\ Commit(H2)
      /\ nextId' = nextId + 1
      /\ hist' = [x \in DOMAIN hist \cup {id} |->
                    IF x = id
                      THEN [CycleStart(NewHist, H1, H2, id) EXCEPT !.runCalls = 1]
                      ELSE IF x = old
                        THEN AbortHist(hist[x], Heap, cur, x)
                        ELSE hist[x]]
      /\ every' = [every EXCEPT !.interval = id, !.ignored = FALSE]
      /\ UNCHANGED <<cur, lastNew, api, pt, keep>>

\* every.stop(reason), from the top level: aborts the interval that exists
\* and deletes _interval.
EveryStop(reason) ==
  LET old == every.interval
  IN  /\ cur.id = 0
      /\ IF old # 0
           THEN /\ Commit(abort(Heap, old, reason))
                /\ hist' = [hist EXCEPT ![old] = AbortHist(@, Heap, cur, old)]
           ELSE UNCHANGED <<objs, timers, native, signal, hist>>
      /\ every' = [every EXCEPT !.interval = 0, !.ignored = FALSE]
      /\ UNCHANGED <<nextId, cur, lastNew, api, pt, keep>>

NextEvery ==
  \/ \E n \in 1 .. MaxTimes : EveryLimit(n)
  \/ nextId <= MaxTimers /\ EveryDo
  \/ \E r \in Reasons : EveryStop(r)
  \/ (\E n \in native : TickFiring(n)) /\ UNCHANGED <<lastNew, api, pt, every, keep>>
  \/ (\E t \in Ids : CbReturn(t)) /\ UNCHANGED <<lastNew, api, pt, every, keep>>
  \/ (\E t \in Ids : CbThrow(t)) /\ UNCHANGED <<lastNew, api, pt, every, keep>>

SpecEvery == Init /\ [][NextEvery]_vars

\* C27: while the Every has an interval (from do() until stop() or the next
\* do()), no step, limit(n) included, changes the stored limit or the times
\* of that interval, which is the stored limit.
C27_LimitIgnoredWhileStarted ==
  [][(every.interval # 0 /\ every'.interval = every.interval) =>
       /\ every'.limit = every.limit
       /\ objs'[every.interval].times = objs[every.interval].times
       /\ objs'[every.interval].times = every'.limit]_vars

C27_Witness ==
  /\ every.interval # 0 /\ every.ignored /\ every.asked # every.limit
  /\ every.limit = 2 /\ hist[every.interval].calls = 1
  /\ objs[every.interval].running

\* C28: runs of an Interval equals the number of callback invocations
\* started so far, in particular k during the k-th invocation.
C28_RunsCountsInvocations ==
  \A t \in Ids :
    /\ objs[t].runs = hist[t].calls
    /\ InCallback(t) => objs[t].runs >= 1

C28_Witness ==
  \E t \in Ids :
    /\ InCallback(t) /\ objs[t].times = Infinity
    /\ hist[t].calls = 2 /\ objs[t].runs = 2

\* C29: every Timer has at most one native timer pending, and a run() call
\* on a running Timer changes no Timer, native timer, timers entry or
\* signal.
C29_OnePendingNativeTimer ==
  /\ [](\A t \in Ids : Cardinality(Pending(native, t)) <= 1)
  /\ [][\A t \in Ids :
          (objs[t].running /\ hist'[t].runCalls > hist[t].runCalls) =>
            UNCHANGED <<objs, timers, native, signal, nextId, cur>>]_vars

C29_Witness ==
  \E t \in Ids :
    /\ objs[t].running /\ hist[t].runCalls = 2 /\ hist[t].calls = 0
    /\ Cardinality(Pending(native, t)) = 1

\* C30: isAborted never goes back to false, an aborted Timer is not
\* running, and a run() call on an aborted Timer changes no Timer, native
\* timer or timers entry.
C30_AbortedIsTerminal ==
  /\ [](\A t \in Ids : objs[t].isAborted => ~objs[t].running)
  /\ [][\A t \in Ids :
          objs[t].isAborted =>
            /\ objs'[t].isAborted
            /\ hist'[t].runCalls > hist[t].runCalls =>
                 UNCHANGED <<objs, timers, native, signal, nextId, cur>>]_vars

C30_Witness ==
  \E t \in Ids :
    /\ objs[t].isAborted /\ hist[t].extAborted /\ hist[t].runCalls = 2
    /\ Pending(native, t) = {} /\ ~objs[t].running

\* C31: a step at the top level that makes a Timer aborted (abort() called,
\* directly or by the signal, on a Timer that was not aborted) leaves it
\* with no native timer pending, not running, aborted, no key of timers and
\* not subscribed to the signal.
C31_AbortReleasesEverything ==
  [][\A t \in Ids :
       (cur.id = 0 /\ ~objs[t].isAborted /\ objs'[t].isAborted) =>
         /\ Pending(native', t) = {}
         /\ ~objs'[t].running
         /\ t \notin timers'
         /\ t \notin signal'.listeners
         /\ objs'[t].timer = 0]_vars

C31_Witness ==
  \E t \in Ids :
    /\ hist[t].extAborted /\ objs[t].isAborted /\ objs[t].signal
    /\ ~signal.aborted /\ hist[t].calls = 1 /\ cur.id = 0
    /\ objs[t].delay > TIMEOUT_MAX

\* C32: abort() on a Timer that is already aborted changes no Timer, native
\* timer, timers entry or signal, and the aborted promise keeps the cause
\* it was first resolved with.
C32_AbortIdempotent ==
  [][\A t \in Ids :
       /\ objs[t].aborted # "pending" => objs'[t].aborted = objs[t].aborted
       /\ \A r \in Reasons :
            (objs[t].isAborted /\ Abort(t, r)) =>
              UNCHANGED <<objs, timers, native, signal>>]_vars

\* C33: in every repeat cycle of a Timer with delay > CAP, the first as
\* well as the later ones, the time left while a native timer is pending
\* is the delay less CAP for each filler of this cycle, and when the
\* callback is entered the native timers of the cycle add up to the delay
\* and at least the delay has passed since the cycle began.
C33_EveryCycleWaitsTheDelay ==
  \A t \in Ids :
    objs[t].delay > TIMEOUT_MAX =>
      /\ Pending(native, t) # {} =>
           objs[t].timeLeft = objs[t].delay - hist[t].fillers * TIMEOUT_MAX
      /\ InCallback(t) =>
           /\ hist[t].armedSum = objs[t].delay
           /\ hist[t].elapsed >= objs[t].delay
           /\ hist[t].fillers = (objs[t].delay - 1) \div TIMEOUT_MAX
      /\ (~InCallback(t) /\ Pending(native, t) # {} /\ hist[t].fillers = 0) =>
           objs[t].timeLeft = objs[t].delay

C33_Witness ==
  \E t \in Ids :
    /\ objs[t].delay = 2 * TIMEOUT_MAX + 1 /\ objs[t].times = Infinity
    /\ hist[t].calls = MaxRuns /\ InCallback(t)
    /\ hist[t].fillers = 2 /\ hist[t].elapsed >= objs[t].delay

\* C34: every filler expiry makes the time left smaller and leaves it above
\* 0, and with fair native expiry a Timer that was run gets its callback
\* invoked, unless it is aborted before.
C34_FillersEndInFiring ==
  /\ [][(FirstId \in Ids /\ hist'[FirstId].fillers = hist[FirstId].fillers + 1) =>
          /\ objs'[FirstId].timeLeft < objs[FirstId].timeLeft
          /\ objs'[FirstId].timeLeft > 0]_vars
  /\ (/\ FirstId \in Ids
      /\ hist[FirstId].runCalls >= 1
      /\ ~hist[FirstId].aborts
      /\ hist[FirstId].calls = 0)
       ~> (FirstId \in Ids /\ (hist[FirstId].calls >= 1 \/ hist[FirstId].aborts))

C34_Witness ==
  /\ FirstId \in Ids
  /\ objs[FirstId].delay = MaxDelay /\ ~hist[FirstId].aborts
  /\ hist[FirstId].calls = 1 /\ hist[FirstId].fillers = 2
  /\ InCallback(FirstId)

\* --------------------------------------------------------- ref and unref
\* The host is Deno, where Deno.unrefTimer and Deno.refTimer exist; they
\* ignore a handle that is not pending.  keep.persistent[t] is _persistent
\* of Timer t, keep.options[t] its options.persistent, keep.unrefd the
\* pending native handles that do not keep the process alive.
Handles(nat) == {n.id : n \in nat}

\* unref(): `if (this._persistent && this._timer)`
unref(K, H, t) ==
  IF K.persistent[t] /\ H.objs[t].timer # 0
    THEN [K EXCEPT !.unrefd = @ \cup ({H.objs[t].timer} \cap Handles(H.native)),
                   !.persistent[t] = FALSE]
    ELSE K

\* ref(): `if (!this._persistent && this._timer)`
ref(K, H, t) ==
  IF ~K.persistent[t] /\ H.objs[t].timer # 0
    THEN [K EXCEPT !.unrefd = @ \ {H.objs[t].timer},
                   !.persistent[t] = TRUE]
    ELSE K

\* The end of #run: `if (!this._persistent) { this.unref(); }`
RunTail(K, H, t) == IF ~K.persistent[t] THEN unref(K, H, t) ELSE K

\* A handler of Timer t has run: where it called #run (a new handle is in
\* _timer) the end of #run follows, and the host forgets the handles that
\* are no longer pending.
AfterHandler(t) ==
  LET K == [keep EXCEPT !.unrefd = @ \cap Handles(native')]
      H == [objs |-> objs', timers |-> timers', native |-> native', signal |-> signal']
  IN  keep' = IF objs'[t].timer # 0 /\ objs'[t].timer # objs[t].timer
                THEN RunTail(K, H, t)
                ELSE K

\* new Timeout(cb, d, {persistent: p}) / new Interval(cb, d, {times: n, persistent: p})
RefNew(d, n, p) ==
  /\ Construct(d, n, FALSE, FALSE)
  /\ lastNew' = [delay |-> Num(d), times |-> n, error |-> "none"]
  /\ keep' = [keep EXCEPT !.persistent = [x \in DOMAIN @ \cup {nextId} |->
                                            IF x = nextId THEN p ELSE @[x]],
                          !.options = [x \in DOMAIN @ \cup {nextId} |->
                                         IF x = nextId THEN p ELSE @[x]]]
  /\ UNCHANGED <<api, pt, every>>

\* timer.unref(), from the top level or from inside the timer's callback.
Unref(t) ==
  /\ cur.id \in {0, t}
  /\ keep' = unref(keep, Heap, t)
  /\ UNCHANGED <<objs, timers, nextId, native, signal, cur, hist, lastNew, api, pt, every>>

\* timer.ref(), from the top level or from inside the timer's callback.
Ref(t) ==
  /\ cur.id \in {0, t}
  /\ keep' = ref(keep, Heap, t)
  /\ UNCHANGED <<objs, timers, nextId, native, signal, cur, hist, lastNew, api, pt, every>>

NextRef ==
  \/ \E d \in {0, TIMEOUT_MAX + 1}, n \in {1, Infinity}, p \in BOOLEAN :
        nextId = FirstId /\ RefNew(d, n, p)
  \/ \E t \in Held : Run(t) /\ AfterHandler(t) /\ UNCHANGED <<lastNew, api, pt, every>>
  \/ \E t \in Held : Abort(t, "undefined") /\ AfterHandler(t)
                        /\ UNCHANGED <<lastNew, api, pt, every>>
  \/ \E t \in Held : Unref(t)
  \/ \E t \in Held : Ref(t)
  \/ \E n \in native : TickFiller(n) /\ AfterHandler(n.owner)
                         /\ UNCHANGED <<lastNew, api, pt, every>>
  \/ \E n \in native : TickFiring(n) /\ AfterHandler(n.owner)
                         /\ UNCHANGED <<lastNew, api, pt, every>>
  \/ \E t \in Ids : CbReturn(t) /\ AfterHandler(t) /\ UNCHANGED <<lastNew, api, pt, every>>
  \/ Advance /\ UNCHANGED <<lastNew, api, pt, every, keep>>

SpecRef == Init /\ [][NextRef]_vars

\* C35: while _persistent of a Timer is false, every native timer it has
\* pending (first tick, filler tick or repeat tick) is unref'd.
C35_NonPersistentIsUnrefd ==
  \A t \in Ids :
    ~keep.persistent[t] =>
      \A n \in Pending(native, t) : n.id \in keep.unrefd

\* C40: a pending native timer of a Timer is ref'd exactly when persistent
\* is true, and ref() and unref() called while the Timer has no pending
\* native timer leave persistent as it was.
C40_PersistentMatchesHost ==
  /\ [](\A t \in Ids : \A n \in Pending(native, t) :
           keep.persistent[t] <=> n.id \notin keep.unrefd)
  /\ [][\A t \in Ids :
           ((Unref(t) \/ Ref(t)) /\ Pending(native, t) = {}) =>
             keep'.persistent[t] = keep.persistent[t]]_vars

\* C37: a constructor call that throws, for an invalid delay or for
\* negative times, adds no entry to timers and leaves no listener of the
\* new Timer on the signal.
C37_ThrowingConstructorLeavesNothing ==
  [][\A a \in DelayArgs, n \in TimesArgs, s \in BOOLEAN, sil \in BOOLEAN :
       (New(a, n, s, sil) /\ lastNew'.error # "none") =>
         /\ timers' = timers
         /\ signal'.listeners = signal.listeners]_vars

\* C38: every Timer with a pending native timer is a key of timers.
C38_PendingIsRegistered ==
  \A t \in Ids : Pending(native, t) # {} => t \in timers

\* C39: at most one of running, ran and isAborted is true for a Timer.
C39_OneFlagAtMost ==
  \A t \in Ids :
    /\ ~(objs[t].running /\ objs[t].ran)
    /\ ~(objs[t].running /\ objs[t].isAborted)
    /\ ~(objs[t].ran /\ objs[t].isAborted)

\* ------------------------------------------- do() from inside the callback
MaxDos == 2               \* how many do() calls one Every gets

\* every.do(cb) called by the callback of the interval that exists (the
\* callback is bound to the Every, so `this.do(...)` is at hand): the same
\* statements as from the top level, the abort() coming from inside the
\* callback of the aborted interval.
EveryDoInside ==
  LET old == every.interval
      id  == nextId
      H0  == abort(Heap, old, "undefined")
      H1  == construct(H0, id, EveryTime, every.limit, FALSE, FALSE)
      H2  == run(H1, id)
  IN  /\ old # 0
      /\ cur.id = old
      /\ Commit(H2)
      /\ nextId' = nextId + 1
      /\ cur' = [cur EXCEPT !.aborted = TRUE]
      /\ hist' = [x \in DOMAIN hist \cup {id} |->
                    IF x = id
                      THEN [CycleStart(NewHist, H1, H2, id) EXCEPT !.runCalls = 1]
                      ELSE IF x = old
                        THEN AbortHist(hist[x], Heap, cur, x)
                        ELSE hist[x]]
      /\ every' = [every EXCEPT !.interval = id, !.ignored = FALSE]
      /\ UNCHANGED <<lastNew, api, pt, keep>>

NextRedo ==
  \/ \E n \in 1 .. MaxTimes : EveryLimit(n)
  \/ nextId < FirstId + MaxDos /\ EveryDo
  \/ nextId < FirstId + MaxDos /\ EveryDoInside
  \/ (\E n \in native : TickFiring(n)) /\ UNCHANGED <<lastNew, api, pt, every, keep>>
  \/ (\E t \in Ids : CbReturn(t)) /\ UNCHANGED <<lastNew, api, pt, every, keep>>

SpecRedo == Init /\ [][NextRedo]_vars

\* C36: at most one of the intervals an Every has constructed is not
\* aborted, and once do() has replaced an interval the callback of the
\* replaced interval is not invoked again.
C36_OneLiveInternalTimer ==
  /\ [](Cardinality({t \in Ids : ~objs[t].isAborted}) <= 1)
  /\ [][\A t \in Ids :
          (t + 1 \in Ids) => hist'[t].calls = hist[t].calls]_vars

=============================================================================
